---------------------------- MODULE Spec2Model ----------------------------
(***************************************************************************)
(* Model of dpi.cpp: the test-suite loader (extractTestSuiteArray,         *)
(* parseObject, parseTestSuiteVector, loadTestSuiteFromUrl), the probe     *)
(* worker with its libcurl callbacks, the outcome classification and the   *)
(* fork/join dispatcher in main.                                            *)
(*                                                                         *)
(* dpi.cpp holds two programs one after the other: lines 1-366 (hand       *)
(* written scanner, empty initial test list) and lines 368-759 (regex +    *)
(* JSON loader, embedded test list).  The variable build says which of the *)
(* two programs runs; worker, the callbacks and the dispatch/join loops    *)
(* are the same text in both.                                               *)
(*                                                                         *)
(* A std::string is a sequence of one-character strings.  Positions are    *)
(* 0-based as in C++; At and substr translate to the 1-based sequences.    *)
(***************************************************************************)
EXTENDS Integers, Sequences, FiniteSets, TLC

(***************************************************************************)
(* Bounds of the model.                                                    *)
(***************************************************************************)
\* records per fetched document
MaxRecords == 2
\* data chunks delivered to write_cb during one transfer
MaxChunks == 2
\* probe tasks a fetched document may ask for
MaxWorkers == 2
\* entries of the embedded test list (second program) that are kept
MaxBuiltin == 2

(***************************************************************************)
(* std::string helpers.                                                    *)
(***************************************************************************)
npos == -1

At(s, k) == s[k + 1]

substr(s, pos, n) == SubSeq(s, pos + 1, pos + n)

SetMin(S) == CHOOSE k \in S : \A m \in S : k <= m

\* s.find(pat, from): first position >= from where pat occurs, else npos
find(s, pat, from) ==
    LET cands == { k \in from .. (Len(s) - Len(pat)) :
                     \A j \in 1 .. Len(pat) : s[k + j] = pat[j] }
    IN  IF cands = {} THEN npos ELSE SetMin(cands)

\* first position >= from that holds one of the characters cs, else npos
findAny(s, cs, from) ==
    LET cands == { k \in from .. (Len(s) - 1) : At(s, k) \in cs }
    IN  IF cands = {} THEN npos ELSE SetMin(cands)

isspace(c) == c \in {" ", "\t", "\n", "\r", "\f"}

DigitChars == <<"0", "1", "2", "3", "4", "5", "6", "7", "8", "9">>

isdigit(c) == \E d \in 1 .. 10 : DigitChars[d] = c

DigitVal(c) == (CHOOSE d \in 1 .. 10 : DigitChars[d] = c) - 1

(***************************************************************************)
(* std::stoi on a run of decimal digits (the only argument getInt passes). *)
(* No digit: std::invalid_argument.  Value above INT_MAX:                  *)
(* std::out_of_range.  The comparison is made on the digits so that the    *)
(* value is only computed when it fits an int.                             *)
(***************************************************************************)
IntMaxDigits == <<"2", "1", "4", "7", "4", "8", "3", "6", "4", "7">>

RECURSIVE StripZeros(_)
StripZeros(ds) ==
    IF ds # <<>> /\ Head(ds) = "0" THEN StripZeros(Tail(ds)) ELSE ds

DigitsGreater(a, b) ==
    \E k \in 1 .. Len(a) :
        /\ DigitVal(a[k]) > DigitVal(b[k])
        /\ \A m \in 1 .. (k - 1) : a[m] = b[m]

RECURSIVE DigitsValue(_, _)
DigitsValue(ds, acc) ==
    IF ds = <<>> THEN acc
    ELSE DigitsValue(Tail(ds), acc * 10 + DigitVal(Head(ds)))

stoi(str) ==
    LET ds == StripZeros(str) IN
    IF str = <<>> THEN [val |-> 0, exc |-> "invalid_argument"]
    ELSE IF \/ Len(ds) > Len(IntMaxDigits)
            \/ Len(ds) = Len(IntMaxDigits) /\ DigitsGreater(ds, IntMaxDigits)
         THEN [val |-> 0, exc |-> "out_of_range"]
    ELSE [val |-> DigitsValue(ds, 0), exc |-> "none"]

(***************************************************************************)
(* extractTestSuiteArray.  depth is a size_t; the scan starts on the '['   *)
(* found by find, so depth is at least 1 before its first decrement and    *)
(* never wraps.                                                             *)
(***************************************************************************)
marker == <<"c", "o", "n", "s", "t", " ", "T", "E", "S", "T", "_", "S", "U", "I", "T", "E">>

\* the for loop of lines 145-153 from index i on; the characters that are
\* no bracket leave depth alone and are passed over in one go
RECURSIVE extractScan(_, _, _, _)
extractScan(html, i, depth, start) ==
    LET k == findAny(html, {"[", "]"}, i) IN
    IF k = npos THEN <<>>
    ELSE IF At(html, k) = "[" THEN extractScan(html, k + 1, depth + 1, start)
    ELSE IF depth - 1 = 0
         THEN substr(html, start, k - start + 1)
         ELSE extractScan(html, k + 1, depth - 1, start)

\* the bug of returning at the first ']' whatever the depth
extractTestSuiteArray_FirstClose(html) ==
    LET pos0 == find(html, marker, 0) IN
    IF pos0 = npos THEN <<>>
    ELSE LET pos == find(html, <<"[">>, pos0) IN
         IF pos = npos THEN <<>>
         ELSE LET e == find(html, <<"]">>, pos) IN
              IF e = npos THEN <<>> ELSE substr(html, pos, e - pos + 1)

\* the bug of looking for the '[' from the start of the document
extractTestSuiteArray_FromStart(html) ==
    LET pos0 == find(html, marker, 0) IN
    IF pos0 = npos THEN <<>>
    ELSE LET pos == find(html, <<"[">>, 0) IN
         IF pos = npos THEN <<>>
         ELSE extractScan(html, pos, 0, pos)

extractTestSuiteArray(html) ==
    LET pos0 == find(html, marker, 0) IN
    IF pos0 = npos THEN <<>>
    ELSE LET pos == find(html, <<"[">>, pos0) IN
         IF pos = npos THEN <<>>
         ELSE extractScan(html, pos, 0, pos)

(***************************************************************************)
(* parseObject with its two lambdas.  getInt gives the value and the       *)
(* exception std::stoi throws, if any.                                      *)
(***************************************************************************)
getString(objText, key) ==
    LET pat == key \o <<":">>
        p0  == find(objText, pat, 0)
    IN  IF p0 = npos THEN <<>>
        ELSE LET p == find(objText, <<"\"">>, p0) IN
             IF p = npos THEN <<>>
             ELSE LET q == find(objText, <<"\"">>, p + 1) IN
                  IF q = npos THEN <<>>
                  ELSE substr(objText, p + 1, q - (p + 1))

RECURSIVE skipSpace(_, _)
skipSpace(s, p) ==
    IF p < Len(s) /\ isspace(At(s, p)) THEN skipSpace(s, p + 1) ELSE p

RECURSIVE skipDigits(_, _)
skipDigits(s, q) ==
    IF q < Len(s) /\ isdigit(At(s, q)) THEN skipDigits(s, q + 1) ELSE q

\* the bug of defaulting an absent key to one
getInt_DefaultOne(objText, key) ==
    LET pat == key \o <<":">>
        p0  == find(objText, pat, 0)
    IN  IF p0 = npos THEN [val |-> 1, exc |-> "none"]
        ELSE LET p == skipSpace(objText, p0 + Len(pat))
                 q == skipDigits(objText, p)
             IN  stoi(substr(objText, p, q - p))

getInt(objText, key) ==
    LET pat == key \o <<":">>
        p0  == find(objText, pat, 0)
    IN  IF p0 = npos THEN [val |-> 0, exc |-> "none"]
        ELSE LET p == skipSpace(objText, p0 + Len(pat))
                 q == skipDigits(objText, p)
             IN  stoi(substr(objText, p, q - p))

\* the bug of accepting every record, whatever its id
parseObject_AcceptAll(objText) ==
    LET n == getInt(objText, <<"t", "i", "m", "e", "s">>) IN
    [ t   |-> [ id       |-> getString(objText, <<"i", "d">>),
                provider |-> getString(objText, <<"p", "r", "o", "v", "i", "d", "e", "r">>),
                url      |-> getString(objText, <<"u", "r", "l">>),
                times    |-> n.val ],
      exc |-> n.exc,
      ok  |-> TRUE ]

\* t: the Test as filled in; exc: the exception that left the function;
\* ok: the return value when it returned
parseObject(objText) ==
    LET n == getInt(objText, <<"t", "i", "m", "e", "s">>) IN
    [ t   |-> [ id       |-> getString(objText, <<"i", "d">>),
                provider |-> getString(objText, <<"p", "r", "o", "v", "i", "d", "e", "r">>),
                url      |-> getString(objText, <<"u", "r", "l">>),
                times    |-> n.val ],
      exc |-> n.exc,
      ok  |-> getString(objText, <<"i", "d">>) # <<>> ]

(***************************************************************************)
(* parseTestSuiteVector: one pass of the outer while loop from index i.    *)
(* matchBrace is the inner for loop: the position of the '}' that brings   *)
(* depth back to 0, or npos when the text ends first.                      *)
(***************************************************************************)
RECURSIVE matchBrace(_, _, _)
matchBrace(arrayText, j, depth) ==
    LET k == findAny(arrayText, {"{", "}"}, j) IN
    IF k = npos THEN npos
    ELSE IF At(arrayText, k) = "{" THEN matchBrace(arrayText, k + 1, depth + 1)
    ELSE IF depth - 1 = 0 THEN k
         ELSE matchBrace(arrayText, k + 1, depth - 1)

\* brk: the loop is left (find gave npos); exc: parseObject threw;
\* push: the Tests appended to out; i: the index after the pass
parseIter(arrayText, i) ==
    LET p == find(arrayText, <<"{">>, i) IN
    IF p = npos THEN [brk |-> TRUE, exc |-> "none", push |-> <<>>, i |-> i]
    ELSE LET j == matchBrace(arrayText, p, 0) IN
         IF j = npos
         THEN [brk |-> FALSE, exc |-> "none", push |-> <<>>, i |-> i + 1]
         ELSE LET r == parseObject(substr(arrayText, p, j - p + 1)) IN
              IF r.exc # "none"
              THEN [brk |-> FALSE, exc |-> r.exc, push |-> <<>>, i |-> i]
              ELSE [brk |-> FALSE, exc |-> "none",
                    push |-> IF r.ok THEN <<r.t>> ELSE <<>>,
                    i |-> (j + 1) + 1]

\* the whole call: the final out, or the exception that ended it.  The
\* passes that start at or before an unclosed '{' all find that same '{' and
\* change nothing but i; they are taken together.
RECURSIVE parseTestSuiteVector(_, _, _)
parseTestSuiteVector(arrayText, i, out) ==
    IF i >= Len(arrayText) THEN [out |-> out, exc |-> "none"]
    ELSE LET r == parseIter(arrayText, i) IN
         IF r.brk THEN [out |-> out, exc |-> "none"]
         ELSE IF r.exc # "none" THEN [out |-> out, exc |-> r.exc]
         ELSE IF r.i = i + 1
         THEN parseTestSuiteVector(arrayText, find(arrayText, <<"{">>, i) + 1, out)
         ELSE parseTestSuiteVector(arrayText, r.i, out \o r.push)

(***************************************************************************)
(* The test list of main.  The first program starts from an empty list     *)
(* (line 341); the second from the embedded list (lines 693-729), of which *)
(* the model keeps the first MaxBuiltin entries.                            *)
(***************************************************************************)
EmbeddedTests ==
    << 
       [ id       |-> <<"U", "S", ".", "C", "F", "-", "0", "1">>,
         provider |-> <<"C", "l", "o", "u", "d", "f", "l", "a", "r", "e">>,
         url      |->
           <<"h", "t", "t", "p", "s", ":", "/", "/", "c", "d", "n", ".", "c",
           "o", "o", "k", "i", "e", "l", "a", "w", ".", "o", "r",
           "g", "/", "s", "c", "r", "i", "p", "t", "t", "e", "m",
           "p", "l", "a", "t", "e", "s", "/", "2", "0", "2", "5",
           "0", "1", ".", "2", ".", "0", "/", "o", "t", "B", "a",
           "n", "n", "e", "r", "S", "d", "k", ".", "j", "s">>,
         times    |-> 1 ],
       [ id       |-> <<"U", "S", ".", "C", "F", "-", "0", "2">>,
         provider |-> <<"C", "l", "o", "u", "d", "f", "l", "a", "r", "e">>,
         url      |->
           <<"h", "t", "t", "p", "s", ":", "/", "/", "g", "e", "n", "s", "h",
           "i", "n", ".", "j", "m", "p", ".", "b", "l", "u", "e",
           "/", "c", "h", "a", "r", "a", "c", "t", "e", "r", "s",
           "/", "a", "l", "l", "#">>,
         times    |-> 1 ],
       [ id       |-> <<"U", "S", ".", "C", "F", "-", "0", "3">>,
         provider |-> <<"C", "l", "o", "u", "d", "f", "l", "a", "r", "e">>,
         url      |->
           <<"h", "t", "t", "p", "s", ":", "/", "/", "a", "p", "i", ".", "f",
           "r", "a", "n", "k", "f", "u", "r", "t", "e", "r", ".",
           "d", "e", "v", "/", "v", "1", "/", "2", "0", "0", "0",
           "-", "0", "1", "-", "0", "1", ".", ".", "2", "0", "0",
           "2", "-", "1", "2", "-", "3", "1">>,
         times    |-> 1 ],
       [ id       |-> <<"U", "S", ".", "D", "O", "-", "0", "1">>,
         provider |-> <<"D", "i", "g", "i", "t", "a", "l", "O", "c", "e", "a", "n">>,
         url      |->
           <<"h", "t", "t", "p", "s", ":", "/", "/", "g", "e", "n", "d", "e",
           "r", "i", "z", "e", ".", "i", "o", "/">>,
         times    |-> 2 ] >>

BuiltinTests ==
    SubSeq(EmbeddedTests, 1,
           IF MaxBuiltin < Len(EmbeddedTests) THEN MaxBuiltin ELSE Len(EmbeddedTests))

InitialTests(b) == IF b = 1 THEN <<>> ELSE BuiltinTests

(***************************************************************************)
(* The documents the fetch may deliver: a head (with or without the        *)
(* marker), brackets (balanced or not), and records, well-formed or not.   *)
(***************************************************************************)
Heads ==
    { marker \o <<"=">>,
      <<"[", "x", "]">> \o marker \o <<"=">>,
      <<"T", "E", "S", "T", "_", "S", "U", "I", "T", "E", "=">>,
      <<>> }

Wraps ==
    { [open |-> <<"[">>,           close |-> <<"]", ";">>],
      [open |-> <<"[">>,           close |-> <<>>],
      [open |-> <<>>,              close |-> <<>>],
      [open |-> <<"[", "[">>,      close |-> <<"]", "]">>],
      [open |-> <<"[", "[", "]">>, close |-> <<"]">>] }

RecordTexts ==
    { <<"{", "i", "d", ":", "\"", "A", "\"", ",", "p", "r", "o", "v", "i", "d", "e", "r", ":", "\"", "P", "\"", ",", "u", "r", "l", ":", "\"", "u", "\"", ",", "t", "i", "m", "e", "s", ":", "1", "}">>,
      <<"{", "i", "d", ":", "\"", "B", "\"", ",", "t", "i", "m", "e", "s", ":", " ", "2", "}">>,
      <<"{", "i", "d", ":", "\"", "\"", ",", "t", "i", "m", "e", "s", ":", "1", "}">>,
      <<"{", "t", "i", "m", "e", "s", ":", "1", "}">>,
      <<"{", "i", "d", ":", "\"", "C", "\"", "}">>,
      <<"{", "i", "d", ":", "\"", "A", "\"", ",", "t", "i", "m", "e", "s", ":", "x", "}">>,
      <<"{", "i", "d", ":", "\"", "A", "\"", ",", "t", "i", "m", "e", "s", ":", "9", "9", "9", "9", "9", "9", "9", "9", "9", "9", "9", "}">>,
      <<"{", "i", "d", ":", "\"", "A", "\"", ",", "p", "r", "o", "v", "i", "d", "e", "r", ":", "\"", "P", "\"", ",", "x", ":", "{", "}", ",", "u", "r", "l", ":", "\"", "u", "\"", ",", "t", "i", "m", "e", "s", ":", "1", "}">>,
      <<"{", "i", "d", ":", "\"", "A", "\"", ",", "t", "i", "m", "e", "s", ":", "1">>,
      <<"}">> }

Separators == { <<",">>, <<>> }

RECURSIVE Bodies(_)
Bodies(n) ==
    IF n = 0 THEN { <<>> }
    ELSE Bodies(n - 1) \cup RecordTexts
         \cup { b \o s \o r : b \in Bodies(n - 1) \ { <<>> },
                              s \in Separators, r \in RecordTexts }

RECURSIVE SumTimes(_)
SumTimes(ts) ==
    IF ts = <<>> THEN 0
    ELSE (IF Head(ts).times > 0 THEN Head(ts).times ELSE 0) + SumTimes(Tail(ts))

\* the size of a list: a Test counts for its probe tasks, and for one when it
\* asks for none
RECURSIVE Weight(_)
Weight(ts) ==
    IF ts = <<>> THEN 0
    ELSE (IF Head(ts).times > 1 THEN Head(ts).times ELSE 1) + Weight(Tail(ts))

\* the size of the list the first program reads from document d
Demand(d) ==
    LET r == parseTestSuiteVector(extractTestSuiteArray(d), 0, <<>>) IN
    IF r.exc # "none" THEN 0 ELSE Weight(r.out)

\* every head and bracketing around at most one record, and the plain
\* "const TEST_SUITE=[ ... ];" around every body
AllDocs ==
    { h \o w.open \o b \o w.close :
        h \in Heads, w \in Wraps, b \in Bodies(1) }
    \cup { marker \o <<"=", "[">> \o b \o <<"]", ";">> : b \in Bodies(MaxRecords) }

Docs == { d \in AllDocs : Demand(d) <= MaxWorkers }

(***************************************************************************)
(* What nlohmann::json::parse and the item.at(..).get<..>() calls of the   *)
(* second program can give: an exception (caught at line 564) or a list of *)
(* Tests.  An empty id is a legal JSON string, and get<int>() (line 560)   *)
(* takes a negative number.                                                 *)
(***************************************************************************)
JsonLists ==
    LET A == [id |-> <<"A">>, provider |-> <<"P">>, url |-> <<"u">>, times |-> 1]
        B == [id |-> <<"B">>, provider |-> <<>>,    url |-> <<>>,    times |-> 2]
        E == [id |-> <<>>,    provider |-> <<"P">>, url |-> <<"u">>, times |-> 1]
        N == [id |-> <<"N">>, provider |-> <<"P">>, url |-> <<"u">>, times |-> -1]
    IN  { <<>>, <<A>>, <<B>>, <<E>>, <<A, E>>, <<B, A>>, <<N, A>> }

JsonOutcomes ==
    { [throw |-> TRUE, tests |-> <<>>] }
    \cup { [throw |-> FALSE, tests |-> l] :
             l \in { x \in JsonLists : SumTimes(x) <= MaxWorkers } }

(***************************************************************************)
(* The transfer layer: the sizes write_cb may be called with, and the      *)
(* codes curl_easy_perform may return.  CURLE_COULDNT_CONNECT stands for   *)
(* every code that falls in the default branch of the switch.              *)
(***************************************************************************)
OK_THRESHOLD_BYTES == 64 * 1024

\* half the threshold: the sums are 0, below, equal to and above the threshold
ChunkSizes == { OK_THRESHOLD_BYTES \div 2 }

CurlCodes ==
    { "CURLE_OK", "CURLE_OPERATION_TIMEDOUT", "CURLE_ABORTED_BY_CALLBACK",
      "CURLE_COULDNT_CONNECT" }

(***************************************************************************)
(* The switch of worker (lines 285-324).  The status strings are written   *)
(* without their trailing emoji; the detail of the default branch is the   *)
(* prefix of the text built from the code.                                 *)
(***************************************************************************)
\* the bug of a strict comparison with the threshold
classify_Strict(rc, received, aborted_by_threshold) ==
    CASE rc = "CURLE_OK" ->
           IF received > OK_THRESHOLD_BYTES
           THEN [status |-> "Not detected", detail |-> "Received >= threshold"]
           ELSE [status |-> "Possibly detected",
                 detail |-> "Stream ended, data too small"]
      [] rc = "CURLE_OPERATION_TIMEDOUT" ->
           IF received = 0
           THEN [status |-> "Detected*",
                 detail |-> "Timeout with zero bytes (likely connection blocked)"]
           ELSE [status |-> "Detected",
                 detail |-> "Timeout after partial data (read blocked)"]
      [] rc = "CURLE_ABORTED_BY_CALLBACK" ->
           IF aborted_by_threshold
           THEN [status |-> "Not detected",
                 detail |-> "Early abort: threshold reached"]
           ELSE [status |-> "Detected",
                 detail |-> "Unexpected abort before threshold"]
      [] OTHER ->
           [status |-> "Failed to complete detection", detail |-> "curl_error="]

\* the bug of reporting every aborted transfer as blocked
classify_AbortDetected(rc, received, aborted_by_threshold) ==
    CASE rc = "CURLE_OK" ->
           IF received >= OK_THRESHOLD_BYTES
           THEN [status |-> "Not detected", detail |-> "Received >= threshold"]
           ELSE [status |-> "Possibly detected",
                 detail |-> "Stream ended, data too small"]
      [] rc = "CURLE_OPERATION_TIMEDOUT" ->
           IF received = 0
           THEN [status |-> "Detected*",
                 detail |-> "Timeout with zero bytes (likely connection blocked)"]
           ELSE [status |-> "Detected",
                 detail |-> "Timeout after partial data (read blocked)"]
      [] rc = "CURLE_ABORTED_BY_CALLBACK" ->
           [status |-> "Detected",
            detail |-> "Unexpected abort before threshold"]
      [] OTHER ->
           [status |-> "Failed to complete detection", detail |-> "curl_error="]

\* the bug of taking a timeout at or above the threshold for a clean path
classify_TimeoutAboveThreshold(rc, received, aborted_by_threshold) ==
    CASE rc = "CURLE_OK" ->
           IF received >= OK_THRESHOLD_BYTES
           THEN [status |-> "Not detected", detail |-> "Received >= threshold"]
           ELSE [status |-> "Possibly detected",
                 detail |-> "Stream ended, data too small"]
      [] rc = "CURLE_OPERATION_TIMEDOUT" ->
           IF received = 0
           THEN [status |-> "Detected*",
                 detail |-> "Timeout with zero bytes (likely connection blocked)"]
           ELSE IF received >= OK_THRESHOLD_BYTES
           THEN [status |-> "Not detected", detail |-> "Received >= threshold"]
           ELSE [status |-> "Detected",
                 detail |-> "Timeout after partial data (read blocked)"]
      [] rc = "CURLE_ABORTED_BY_CALLBACK" ->
           IF aborted_by_threshold
           THEN [status |-> "Not detected",
                 detail |-> "Early abort: threshold reached"]
           ELSE [status |-> "Detected",
                 detail |-> "Unexpected abort before threshold"]
      [] OTHER ->
           [status |-> "Failed to complete detection", detail |-> "curl_error="]

classify(rc, received, aborted_by_threshold) ==
    CASE rc = "CURLE_OK" ->
           IF received >= OK_THRESHOLD_BYTES
           THEN [status |-> "Not detected", detail |-> "Received >= threshold"]
           ELSE [status |-> "Possibly detected",
                 detail |-> "Stream ended, data too small"]
      [] rc = "CURLE_OPERATION_TIMEDOUT" ->
           IF received = 0
           THEN [status |-> "Detected*",
                 detail |-> "Timeout with zero bytes (likely connection blocked)"]
           ELSE [status |-> "Detected",
                 detail |-> "Timeout after partial data (read blocked)"]
      [] rc = "CURLE_ABORTED_BY_CALLBACK" ->
           IF aborted_by_threshold
           THEN [status |-> "Not detected",
                 detail |-> "Early abort: threshold reached"]
           ELSE [status |-> "Detected",
                 detail |-> "Unexpected abort before threshold"]
      [] OTHER ->
           [status |-> "Failed to complete detection", detail |-> "curl_error="]

(***************************************************************************)
(* Result (lines 26-35) without http_code and elapsed_ms, and the id that  *)
(* worker gives it (line 245).                                              *)
(***************************************************************************)
RECURSIVE to_string(_)
to_string(n) ==
    IF n < 10 THEN <<DigitChars[n + 1]>>
    ELSE to_string(n \div 10) \o <<DigitChars[(n % 10) + 1]>>

\* the bug of giving every repetition the id of the Test
ResultId_NoSuffix(t, idx) == t.id

ResultId(t, idx) ==
    IF t.times > 1 THEN t.id \o <<"@">> \o to_string(idx) ELSE t.id

NoResult ==
    [ id |-> <<>>, provider |-> <<>>, received |-> 0, status |-> "",
      detail |-> "", aborted_by_threshold |-> FALSE ]

(***************************************************************************)
(* State.                                                                  *)
(*   build        which of the two programs of dpi.cpp runs               *)
(*   mainpc       where main is: load, extract, parse, dispatch, join,    *)
(*                done (returned 0), aborted (std::terminate)             *)
(*   tests        the vector tests of main                                 *)
(*   html, arr, i the locals of loadTestSuiteFromUrl and of the loop of   *)
(*                parseTestSuiteVector; empty outside the call            *)
(*   exc          the exception that left main, if any                    *)
(*   loadOutcome  how loadTestSuiteFromUrl returned                        *)
(*   ti, ri       the two loop indices of the dispatch loops              *)
(*   workers      the vector workers: one record per std::thread with the *)
(*                arguments and locals of its worker call, and the number *)
(*                of result lines it has written                           *)
(*   jn           the index of the join loop                               *)
(*   finished     "All tests finished." has been written                   *)
(*   exitCode     how the process ended                                    *)
(*   log_mtx      the mutex log_mtx (line 37): locked or unlocked          *)
(***************************************************************************)
VARIABLES build, mainpc, tests, html, arr, i, exc, loadOutcome,
          ti, ri, workers, jn, finished, exitCode, log_mtx

vars == << build, mainpc, tests, html, arr, i, exc, loadOutcome,
           ti, ri, workers, jn, finished, exitCode, log_mtx >>

loadVars == << html, arr, i, exc, loadOutcome >>
dispatchVars == << ti, ri, workers, jn >>
exitVars == << finished, exitCode >>

Init ==
    /\ build \in {1, 2}
    /\ mainpc = "load"
    /\ tests = InitialTests(build)
    /\ html = <<>>
    /\ arr = <<>>
    /\ i = 0
    /\ exc = "none"
    /\ loadOutcome = "pending"
    /\ ti = 0
    /\ ri = 0
    /\ workers = <<>>
    /\ jn = 0
    /\ finished = FALSE
    /\ exitCode = "none"
    /\ log_mtx = "unlocked"

(***************************************************************************)
(* loadTestSuiteFromUrl, first program (lines 215-224).  fetchHtml either  *)
(* fails or delivers a document; the call then runs extractTestSuiteArray, *)
(* clears tests and runs the loop of parseTestSuiteVector on tests itself. *)
(* The loop is taken one pass at a time: an exception of std::stoi leaves  *)
(* it, and main, in the middle.                                             *)
(***************************************************************************)
loadReturn(outcome) ==
    /\ mainpc' = "dispatch"
    /\ loadOutcome' = outcome
    /\ html' = <<>>
    /\ arr' = <<>>
    /\ i' = 0

loadTestSuiteFromUrl_fetch(d, ok) ==
    /\ mainpc = "load"
    /\ build = 1
    /\ IF ok
       THEN /\ html' = d
            /\ mainpc' = "extract"
            /\ UNCHANGED << arr, i, loadOutcome >>
       ELSE loadReturn("fetch_failed")
    /\ UNCHANGED << build, tests, exc, dispatchVars, exitVars, log_mtx >>

loadTestSuiteFromUrl_extract ==
    /\ mainpc = "extract"
    /\ LET a == extractTestSuiteArray(html) IN
       IF a = <<>>
       THEN /\ loadReturn("no_array")
            /\ UNCHANGED tests
       ELSE /\ arr' = a
            /\ tests' = <<>>
            /\ i' = 0
            /\ mainpc' = "parse"
            /\ UNCHANGED << html, loadOutcome >>
    /\ UNCHANGED << build, exc, dispatchVars, exitVars, log_mtx >>

\* the condition under which the while loop of parseTestSuiteVector is left
parseLoopDone == i >= Len(arr) \/ parseIter(arr, i).brk

\* the bug of resuming the scan at the '{' of the object just read
parseTestSuiteVector_step_Rescan ==
    /\ mainpc = "parse"
    /\ ~parseLoopDone
    /\ LET r == parseIter(arr, i) IN
       IF r.exc # "none"
       THEN /\ exc' = r.exc
            /\ mainpc' = "aborted"
            /\ exitCode' = "SIGABRT"
            /\ UNCHANGED << tests, i >>
       ELSE /\ tests' = tests \o r.push
            /\ i' = IF r.i = i + 1 THEN r.i ELSE find(arr, <<"{">>, i)
            /\ UNCHANGED << exc, mainpc, exitCode >>
    /\ UNCHANGED << build, html, arr, loadOutcome, dispatchVars, finished,
                    log_mtx >>

parseTestSuiteVector_step ==
    /\ mainpc = "parse"
    /\ ~parseLoopDone
    /\ LET r == parseIter(arr, i) IN
       IF r.exc # "none"
       THEN \* uncaught: std::terminate
            /\ exc' = r.exc
            /\ mainpc' = "aborted"
            /\ exitCode' = "SIGABRT"
            /\ UNCHANGED << tests, i >>
       ELSE /\ tests' = tests \o r.push
            /\ i' = r.i
            /\ UNCHANGED << exc, mainpc, exitCode >>
    /\ UNCHANGED << build, html, arr, loadOutcome, dispatchVars, finished,
                    log_mtx >>

parseTestSuiteVector_return ==
    /\ mainpc = "parse"
    /\ parseLoopDone
    /\ loadReturn("parsed")
    /\ UNCHANGED << build, tests, exc, dispatchVars, exitVars, log_mtx >>

(***************************************************************************)
(* loadTestSuiteFromUrl, second program (lines 535-568).  std::regex and   *)
(* nlohmann::json are libraries: whether the fetch succeeds, whether the   *)
(* regex matches and what the JSON gives are inputs.  tests is assigned    *)
(* once, from tmpTests, after the loop over the items.                     *)
(***************************************************************************)
\* the bug of clearing the list before the outcome is known
loadTestSuiteFromUrl_v2_ClearFirst(ok, matched, outcome) ==
    /\ mainpc = "load"
    /\ build = 2
    /\ IF ~ok THEN loadOutcome' = "fetch_failed"
       ELSE IF ~matched THEN loadOutcome' = "no_array"
       ELSE IF outcome.throw THEN loadOutcome' = "parse_failed"
       ELSE loadOutcome' = "parsed"
    /\ tests' = IF ok /\ matched /\ ~outcome.throw THEN outcome.tests ELSE <<>>
    /\ mainpc' = "dispatch"
    /\ UNCHANGED << build, html, arr, i, exc, dispatchVars, exitVars, log_mtx >>

loadTestSuiteFromUrl_v2(ok, matched, outcome) ==
    /\ mainpc = "load"
    /\ build = 2
    /\ IF ~ok
       THEN loadOutcome' = "fetch_failed" /\ UNCHANGED tests
       ELSE IF ~matched
       THEN loadOutcome' = "no_array" /\ UNCHANGED tests
       ELSE IF outcome.throw
       THEN loadOutcome' = "parse_failed" /\ UNCHANGED tests
       ELSE loadOutcome' = "parsed" /\ tests' = outcome.tests
    /\ mainpc' = "dispatch"
    /\ UNCHANGED << build, html, arr, i, exc, dispatchVars, exitVars, log_mtx >>

(***************************************************************************)
(* main: the dispatch loops (lines 352-357), the join loop (359-361) and   *)
(* the end (363-365).  std::thread copies t, i and TIMEOUT_MS; the thread  *)
(* starts running at once.                                                  *)
(***************************************************************************)
NewWorker(t, idx) ==
    [ t |-> t, idx |-> idx, pc |-> "start", curl |-> "unset", res |-> NoResult,
      rc |-> "none", abortRequested |-> FALSE, chunks |-> 0, reported |-> 0,
      msgs |-> 0 ]

\* the bug of one repetition too many
main_spawn_OffByOne ==
    /\ mainpc = "dispatch"
    /\ ti < Len(tests)
    /\ ri <= At(tests, ti).times
    /\ workers' = Append(workers, NewWorker(At(tests, ti), ri))
    /\ ri' = ri + 1
    /\ UNCHANGED << build, mainpc, tests, loadVars, ti, jn, exitVars, log_mtx >>

main_spawn ==
    /\ mainpc = "dispatch"
    /\ ti < Len(tests)
    /\ ri < At(tests, ti).times
    /\ workers' = Append(workers, NewWorker(At(tests, ti), ri))
    /\ ri' = ri + 1
    /\ UNCHANGED << build, mainpc, tests, loadVars, ti, jn, exitVars, log_mtx >>

main_next_test ==
    /\ mainpc = "dispatch"
    /\ ti < Len(tests)
    /\ ~(ri < At(tests, ti).times)
    /\ ti' = ti + 1
    /\ ri' = 0
    /\ UNCHANGED << build, mainpc, tests, loadVars, workers, jn, exitVars,
                    log_mtx >>

main_dispatch_end ==
    /\ mainpc = "dispatch"
    /\ ~(ti < Len(tests))
    /\ mainpc' = "join"
    /\ jn' = 0
    /\ UNCHANGED << build, tests, loadVars, ti, ri, workers, exitVars, log_mtx >>

\* the bug of not waiting for the thread (detach instead of join)
main_join_NoWait ==
    /\ mainpc = "join"
    /\ jn < Len(workers)
    /\ jn' = jn + 1
    /\ UNCHANGED << build, mainpc, tests, loadVars, ti, ri, workers, exitVars,
                    log_mtx >>

\* th.join() returns once worker has returned
main_join ==
    /\ mainpc = "join"
    /\ jn < Len(workers)
    /\ At(workers, jn).pc = "done"
    /\ jn' = jn + 1
    /\ UNCHANGED << build, mainpc, tests, loadVars, ti, ri, workers, exitVars,
                    log_mtx >>

\* lines 363-364 up to the lock_guard of log_msg: the call waits for log_mtx
main_finish ==
    /\ mainpc = "join"
    /\ ~(jn < Len(workers))
    /\ log_mtx = "unlocked"
    /\ log_mtx' = "locked"
    /\ mainpc' = "log_msg"
    /\ UNCHANGED << build, tests, loadVars, dispatchVars, exitVars >>

\* lines 74-84 and 365 for the main thread: "All tests finished." is written,
\* the lock_guard releases log_mtx, main returns 0
main_log_msg ==
    /\ mainpc = "log_msg"
    /\ log_mtx' = "unlocked"
    /\ finished' = TRUE
    /\ exitCode' = "0"
    /\ mainpc' = "done"
    /\ UNCHANGED << build, tests, loadVars, dispatchVars >>

(***************************************************************************)
(* worker (lines 243-338) for thread k of workers, with the two callbacks  *)
(* libcurl runs inside curl_easy_perform, and the three logging calls.  A  *)
(* logging call is two steps: the thread takes log_mtx (and waits while it *)
(* is locked), then writes its line and releases it.  The statements of    *)
(* worker that touch only its locals go with the step that follows them.   *)
(* Threads run only while the process does.                                 *)
(***************************************************************************)
running == mainpc \notin {"done", "aborted"}

SetWorker(k, w) ==
    /\ workers' = [workers EXCEPT ![k] = w]
    /\ UNCHANGED << build, mainpc, tests, loadVars, ti, ri, jn, exitVars >>

\* the bug of handing the Result of a task without a handle to the transfer
\* and the Reporter
worker_start_ReportFailed(k, ok) ==
    LET w == workers[k]
        r == [NoResult EXCEPT !.id = ResultId(w.t, w.idx),
                              !.provider = w.t.provider]
    IN  /\ running
        /\ w.pc = "start"
        /\ log_mtx = "unlocked"
        /\ log_mtx' = "locked"
        /\ SetWorker(k, [w EXCEPT !.pc = "log_start", !.res = r,
                                  !.curl = IF ok THEN "handle" ELSE "null"])

\* lines 244-277: the Result, curl_easy_init, the options, and the call of
\* log_start (handle) or log_msg (no handle) up to its lock_guard
worker_start(k, ok) ==
    LET w == workers[k]
        r == [NoResult EXCEPT !.id = ResultId(w.t, w.idx),
                              !.provider = w.t.provider]
    IN  /\ running
        /\ w.pc = "start"
        /\ log_mtx = "unlocked"
        /\ log_mtx' = "locked"
        /\ IF ok
           THEN SetWorker(k, [w EXCEPT !.pc = "log_start", !.curl = "handle",
                                       !.res = r])
           ELSE SetWorker(k, [w EXCEPT !.pc = "log_msg", !.curl = "null",
                                       !.res = r])

\* lines 67-70 and 39-47: the start line is written and log_mtx released;
\* worker goes on to curl_easy_perform
log_start(k) ==
    LET w == workers[k] IN
    /\ running
    /\ w.pc = "log_start"
    /\ log_mtx' = "unlocked"
    /\ SetWorker(k, [w EXCEPT !.pc = "perform"])

\* lines 72-84 and 253: "curl_easy_init failed" is written and log_mtx
\* released; worker returns and its Result ends
log_msg(k) ==
    LET w == workers[k] IN
    /\ running
    /\ w.pc = "log_msg"
    /\ log_mtx' = "unlocked"
    /\ SetWorker(k, [w EXCEPT !.pc = "done", !.msgs = @ + 1, !.res = NoResult])

\* the bug of a counter shared by all transfers
write_cb_Shared(k, n) ==
    LET w == workers[k] IN
    /\ running
    /\ w.pc = "perform"
    /\ ~w.abortRequested
    /\ w.chunks < MaxChunks
    /\ workers' = [j \in DOMAIN workers |->
                     IF j = k
                     THEN [w EXCEPT !.res.received = @ + n, !.chunks = @ + 1]
                     ELSE IF workers[j].pc = "perform"
                     THEN [workers[j] EXCEPT !.res.received = @ + n]
                     ELSE workers[j]]
    /\ UNCHANGED << build, mainpc, tests, loadVars, ti, ri, jn, exitVars,
                    log_mtx >>

\* lines 227-232, called by the transfer with n bytes of data
write_cb(k, n) ==
    LET w == workers[k] IN
    /\ running
    /\ w.pc = "perform"
    /\ ~w.abortRequested
    /\ w.chunks < MaxChunks
    /\ SetWorker(k, [w EXCEPT !.res.received = @ + n, !.chunks = @ + 1])
    /\ UNCHANGED log_mtx

\* the bug of asking for the abort without setting the latch
xferinfo_cb_NoLatch(k) ==
    LET w == workers[k] IN
    /\ running
    /\ w.pc = "perform"
    /\ ~w.abortRequested
    /\ IF w.res.received >= OK_THRESHOLD_BYTES
       THEN SetWorker(k, [w EXCEPT !.abortRequested = TRUE])
       ELSE SetWorker(k, w)
    /\ UNCHANGED log_mtx

\* lines 234-241, a progress tick of the transfer; a return of 1 makes the
\* transfer end with CURLE_ABORTED_BY_CALLBACK
xferinfo_cb(k) ==
    LET w == workers[k] IN
    /\ running
    /\ w.pc = "perform"
    /\ ~w.abortRequested
    /\ IF w.res.received >= OK_THRESHOLD_BYTES
       THEN SetWorker(k, [w EXCEPT !.res.aborted_by_threshold = TRUE,
                                   !.abortRequested = TRUE])
       ELSE SetWorker(k, w)
    /\ UNCHANGED log_mtx

\* the bug of dropping the Result of a failed transfer
worker_perform_return_DropFailed(k, rc) ==
    LET w == workers[k]
        c == classify(rc, w.res.received, w.res.aborted_by_threshold)
    IN  /\ running
        /\ w.pc = "perform"
        /\ w.abortRequested => rc = "CURLE_ABORTED_BY_CALLBACK"
        /\ log_mtx = "unlocked"
        /\ IF rc = "CURLE_COULDNT_CONNECT"
           THEN /\ UNCHANGED log_mtx
                /\ SetWorker(k, [w EXCEPT !.pc = "done", !.rc = "none",
                                          !.res = NoResult, !.chunks = 0,
                                          !.abortRequested = FALSE])
           ELSE /\ log_mtx' = "locked"
                /\ SetWorker(k, [w EXCEPT !.pc = "log_result", !.rc = rc,
                                          !.res.status = c.status,
                                          !.res.detail = c.detail])

\* the bug of handing the Result to log_result before the switch
worker_perform_return_NoStatus(k, rc) ==
    LET w == workers[k] IN
    /\ running
    /\ w.pc = "perform"
    /\ w.abortRequested => rc = "CURLE_ABORTED_BY_CALLBACK"
    /\ log_mtx = "unlocked"
    /\ log_mtx' = "locked"
    /\ SetWorker(k, [w EXCEPT !.pc = "log_result", !.rc = rc])

\* the bug of writing the result line without taking log_mtx
worker_perform_return_NoLock(k, rc) ==
    LET w == workers[k]
        c == classify(rc, w.res.received, w.res.aborted_by_threshold)
    IN  /\ running
        /\ w.pc = "perform"
        /\ w.abortRequested => rc = "CURLE_ABORTED_BY_CALLBACK"
        /\ log_mtx' = "locked"
        /\ SetWorker(k, [w EXCEPT !.pc = "log_result", !.rc = rc,
                                  !.res.status = c.status,
                                  !.res.detail = c.detail])

\* lines 278-334 and 87-103 up to the lock_guard of log_write:
\* curl_easy_perform returns rc, the switch fills status and detail, the
\* line of the Result is formatted and the call waits for log_mtx
worker_perform_return(k, rc) ==
    LET w == workers[k]
        c == classify(rc, w.res.received, w.res.aborted_by_threshold)
    IN  /\ running
        /\ w.pc = "perform"
        /\ w.abortRequested => rc = "CURLE_ABORTED_BY_CALLBACK"
        /\ log_mtx = "unlocked"
        /\ log_mtx' = "locked"
        /\ SetWorker(k, [w EXCEPT !.pc = "log_result", !.rc = rc,
                                  !.res.status = c.status,
                                  !.res.detail = c.detail])

\* lines 39-47 and 336-338: the result line is written and log_mtx released,
\* curl_easy_cleanup, return; the Result and the other locals end with the
\* call
log_result(k) ==
    LET w == workers[k] IN
    /\ running
    /\ w.pc = "log_result"
    /\ log_mtx' = "unlocked"
    /\ SetWorker(k, [w EXCEPT !.pc = "done", !.reported = @ + 1,
                              !.res = NoResult, !.rc = "none", !.chunks = 0,
                              !.abortRequested = FALSE])

WorkerIds == 1 .. Len(workers)

Next ==
    \/ mainpc = "load" /\ build = 1
         /\ \E d \in Docs, ok \in BOOLEAN : loadTestSuiteFromUrl_fetch(d, ok)
    \/ loadTestSuiteFromUrl_extract
    \/ parseTestSuiteVector_step
    \/ parseTestSuiteVector_return
    \/ mainpc = "load" /\ build = 2
         /\ \E ok \in BOOLEAN, matched \in BOOLEAN, outcome \in JsonOutcomes :
               loadTestSuiteFromUrl_v2(ok, matched, outcome)
    \/ main_spawn
    \/ main_next_test
    \/ main_dispatch_end
    \/ main_join
    \/ main_finish
    \/ main_log_msg
    \/ \E k \in WorkerIds, ok \in BOOLEAN : worker_start(k, ok)
    \/ \E k \in WorkerIds : log_start(k)
    \/ \E k \in WorkerIds : log_msg(k)
    \/ \E k \in WorkerIds, n \in ChunkSizes : write_cb(k, n)
    \/ \E k \in WorkerIds : xferinfo_cb(k)
    \/ \E k \in WorkerIds, rc \in CurlCodes : worker_perform_return(k, rc)
    \/ \E k \in WorkerIds : log_result(k)

Spec == Init /\ [][Next]_vars

\* the steps of the probe threads and of main from the join loop on
ThreadsNext ==
    \/ main_join
    \/ main_finish
    \/ main_log_msg
    \/ \E k \in WorkerIds, ok \in BOOLEAN : worker_start(k, ok)
    \/ \E k \in WorkerIds : log_start(k)
    \/ \E k \in WorkerIds : log_msg(k)
    \/ \E k \in WorkerIds, rc \in CurlCodes : worker_perform_return(k, rc)
    \/ \E k \in WorkerIds : log_result(k)

\* A thread that can take a step is scheduled, and every transfer ends
\* (CURLOPT_TIMEOUT_MS, line 271): the threads do not all stop while one of
\* them can go on.
FairSpec == Spec /\ WF_vars(ThreadsNext)

(***************************************************************************)
(* Properties.                                                             *)
(***************************************************************************)
AllWorkersDone == \A k \in WorkerIds : workers[k].pc = "done"

\* C1 (as stated): every probe task that has ended has reported exactly one
\* Result, so N launched tasks give N Results once all have finished.
C1_EveryTaskReports ==
    \A k \in WorkerIds : workers[k].pc = "done" => workers[k].reported = 1

\* C1 (amended): no task reports twice or before it ends; a task that has
\* ended has reported exactly one Result when curl_easy_init gave it a handle
\* and none when it did not.
C1_HandleTasksReportOnce ==
    \A k \in WorkerIds :
        /\ workers[k].reported <= 1
        /\ workers[k].pc # "done" => workers[k].reported = 0
        /\ workers[k].pc = "done" =>
              workers[k].reported = (IF workers[k].curl = "handle" THEN 1 ELSE 0)

C1_Witness ==
    /\ finished
    /\ Len(workers) = 2
    /\ workers[1].curl = "handle" /\ workers[1].reported = 1
    /\ workers[2].curl = "null" /\ workers[2].reported = 0

\* The decision table of the specification, section 4.6.
DecisionTable(outcome, received, aborted_by_threshold) ==
    IF outcome = "success" /\ received >= 65536 THEN "Not detected"
    ELSE IF outcome = "success" /\ received < 65536 THEN "Possibly detected"
    ELSE IF outcome = "timeout" /\ received = 0 THEN "Detected (probable)"
    ELSE IF outcome = "timeout" /\ received > 0 THEN "Detected"
    ELSE IF outcome = "aborted-by-callback" /\ aborted_by_threshold
         THEN "Not detected"
    ELSE IF outcome = "aborted-by-callback" /\ ~aborted_by_threshold
         THEN "Detected"
    ELSE "Failed to complete"

Outcome(rc) ==
    IF rc = "CURLE_OK" THEN "success"
    ELSE IF rc = "CURLE_OPERATION_TIMEDOUT" THEN "timeout"
    ELSE IF rc = "CURLE_ABORTED_BY_CALLBACK" THEN "aborted-by-callback"
    ELSE "other"

Diagnosis(status) ==
    IF status = "Detected*" THEN "Detected (probable)"
    ELSE IF status = "Failed to complete detection" THEN "Failed to complete"
    ELSE status

\* C2: the status every classified Result carries is the diagnosis the
\* decision table gives for (transfer outcome, received, aborted_by_threshold).
C2_ClassifierFollowsTable ==
    \A k \in WorkerIds :
        workers[k].pc = "log_result" =>
            Diagnosis(workers[k].res.status)
              = DecisionTable(Outcome(workers[k].rc), workers[k].res.received,
                              workers[k].res.aborted_by_threshold)

C2_Witness ==
    \E k \in WorkerIds :
        /\ workers[k].pc = "log_result"
        /\ workers[k].rc = "CURLE_OK"
        /\ workers[k].res.received = 65536
        /\ workers[k].res.status = "Not detected"

\* C3: "All tests finished." is written, and main returns, only when every
\* spawned probe task has ended.
C3_MarkerAfterAllTasks ==
    (finished \/ mainpc = "done") => AllWorkersDone

C3_Witness ==
    /\ finished
    /\ Len(workers) = 2
    /\ AllWorkersDone

\* C4 (as stated): whatever the document and the probe outcomes, the process
\* ends in one way only: after the final marker, with exit code 0.
C4_EndsWithMarkerAndZero ==
    (exitCode # "none" \/ mainpc \in {"done", "aborted"}) =>
        (mainpc = "done" /\ finished /\ exitCode = "0")

\* C5: after a load that ended because the fetch failed or no array was
\* extracted, the test list is the list main had before the call, and no
\* exception has left the call.
C5_FailedLoadLeavesList ==
    loadOutcome \in {"fetch_failed", "no_array"} =>
        /\ tests = InitialTests(build)
        /\ exc = "none"
        /\ mainpc # "aborted"

C5_Witness ==
    /\ build = 2
    /\ loadOutcome = "fetch_failed"
    /\ mainpc = "dispatch"
    /\ tests = BuiltinTests
    /\ tests # <<>>

\* C6 (as stated): while parseTestSuiteVector runs, and after it was cut
\* short, the test list is either the list from before the load or the
\* complete list of the records of the extracted array.
C6_NoPartialList ==
    mainpc \in {"parse", "aborted"} =>
        \/ tests = InitialTests(build)
        \/ LET r == parseTestSuiteVector(arr, 0, <<>>) IN
           r.exc = "none" /\ tests = r.out

\* C7 (as stated): after a load that failed, the test list is the embedded
\* list and is not empty.
C7_FallbackToBuiltin ==
    loadOutcome \in {"fetch_failed", "no_array", "parse_failed"} =>
        tests = BuiltinTests /\ tests # <<>>

\* '[' minus ']' over the first n characters of s
BracketDepth(s, n) ==
    Cardinality({ k \in 1 .. n : s[k] = "[" })
      - Cardinality({ k \in 1 .. n : s[k] = "]" })

\* s starts with '[', ends with ']', and its depth is back to zero at its
\* last character and not before
BalancedArray(s) ==
    /\ s # <<>>
    /\ s[1] = "["
    /\ s[Len(s)] = "]"
    /\ BracketDepth(s, Len(s)) = 0
    /\ \A n \in 1 .. (Len(s) - 1) : BracketDepth(s, n) > 0

Occurs(s, pat, k) ==
    /\ k + Len(pat) <= Len(s)
    /\ \A j \in 1 .. Len(pat) : s[k + j] = pat[j]

\* r is what the Extractor of section 4.1 gives for html
ExtractorResult(html_, r) ==
    LET ms == { k \in 0 .. Len(html_) : Occurs(html_, marker, k) } IN
    IF ms = {} THEN r = <<>>
    ELSE LET bs == { k \in SetMin(ms) .. (Len(html_) - 1) : At(html_, k) = "[" } IN
         IF bs = {} THEN r = <<>>
         ELSE LET b  == SetMin(bs)
                  es == { e \in b .. (Len(html_) - 1) :
                            BalancedArray(substr(html_, b, e - b + 1)) }
              IN  IF es = {} THEN r = <<>>
                  ELSE /\ r = substr(html_, b, SetMin(es) - b + 1)
                       /\ BalancedArray(r)

\* C8: extractTestSuiteArray gives the balanced array that starts at the first
\* '[' after the marker, and the empty string when the marker, the '[' or the
\* balancing ']' is missing.
C8_ExtractorBalanced ==
    /\ mainpc = "extract" => ExtractorResult(html, extractTestSuiteArray(html))
    /\ mainpc = "parse" => ExtractorResult(html, arr)

C8_Witness ==
    /\ mainpc = "parse"
    /\ Len(arr) > 4
    /\ substr(arr, 0, 2) = <<"[", "[">>
    /\ Len(arr) < Len(html)

\* C9: in the program whose loader is parseObject, no Test of the list, and no
\* Test handed to a probe task, has an empty id.
C9_NoEmptyId ==
    build = 1 =>
        /\ \A n \in 1 .. Len(tests) : tests[n].id # <<>>
        /\ \A k \in WorkerIds : workers[k].t.id # <<>>

C9_Witness ==
    /\ build = 1
    /\ mainpc = "parse"
    /\ parseLoopDone
    /\ find(arr, <<"i", "d", ":", "\"", "\"">>, 0) # npos
    /\ tests # <<>>

\* C10 (as stated): parseObject never throws; no exception leaves the loader,
\* whatever record it is about to read.
C10_ParseObjectNeverThrows ==
    /\ exc = "none"
    /\ (mainpc = "parse" /\ ~parseLoopDone) => parseIter(arr, i).exc = "none"

\* the probe tasks (test, 0) .. (test, n - 1)
RECURSIVE Repetitions(_, _)
Repetitions(t, n) ==
    IF n <= 0 THEN <<>>
    ELSE Append(Repetitions(t, n - 1), [t |-> t, idx |-> n - 1])

\* the probe tasks of a list, in the order of the list
RECURSIVE TasksOf(_)
TasksOf(ts) ==
    IF ts = <<>> THEN <<>>
    ELSE Repetitions(Head(ts), Head(ts).times) \o TasksOf(Tail(ts))

\* the sum of times over a list, as written
RECURSIVE PlainSum(_)
PlainSum(ts) ==
    IF ts = <<>> THEN 0 ELSE Head(ts).times + PlainSum(Tail(ts))

\* the (test, i) pairs of the threads started so far, in the order of workers
Started ==
    [ k \in 1 .. Len(workers) |-> [t |-> workers[k].t, idx |-> workers[k].idx] ]

Dispatched == mainpc \in {"join", "log_msg", "done"}

\* C11 (as stated): once the dispatch loops have ended, the threads started
\* are the pairs (test, i) with 0 <= i < test.times, one thread each, and
\* their number is the sum of times over the list.
C11_TasksAreSumOfTimes ==
    Dispatched =>
        /\ Started = TasksOf(tests)
        /\ Len(workers) = PlainSum(tests)

\* C11 (amended): while the dispatch loops run the threads started are a
\* prefix of the pairs (test, i) with 0 <= i < test.times, in list order, and
\* once they have ended they are exactly these pairs, one thread each; their
\* number is the sum of times over the Tests with times > 0.
C11_TasksArePairs ==
    /\ Len(workers) <= Len(TasksOf(tests))
    /\ Started = SubSeq(TasksOf(tests), 1, Len(workers))
    /\ Dispatched =>
          /\ Started = TasksOf(tests)
          /\ Len(workers) = SumTimes(tests)

C11_Witness ==
    /\ Dispatched
    /\ Len(tests) = 2
    /\ tests[1].times < 0
    /\ tests[2].times = 1
    /\ Len(workers) = 1
    /\ workers[1].t = tests[2]

\* the Result of thread k exists: worker has built it and has not returned
Alive(k) ==
    workers[k].pc \in {"log_start", "log_msg", "perform", "log_result"}

\* s is the decimal numeral of n, without sign and without leading zeros
IsDecimalOf(s, n) ==
    /\ s # <<>>
    /\ \A d \in 1 .. Len(s) : isdigit(s[d])
    /\ (Len(s) > 1 => s[1] # "0")
    /\ DigitsValue(s, 0) = n

\* C12: the id of the Result of probe task (test, i) is test.id when
\* test.times is 1, and test.id, '@' and the decimal numeral of i when
\* test.times > 1; the Results of two repetitions of one Test have different
\* ids; Test {id:"A", times:3} gives A@0, A@1, A@2.
C12_ResultIdSuffix ==
    /\ \A k \in WorkerIds :
          Alive(k) =>
            LET t  == workers[k].t
                id == workers[k].res.id
            IN  /\ t.times = 1 => id = t.id
                /\ t.times > 1 =>
                      /\ Len(id) > Len(t.id) + 1
                      /\ SubSeq(id, 1, Len(t.id)) = t.id
                      /\ id[Len(t.id) + 1] = "@"
                      /\ IsDecimalOf(SubSeq(id, Len(t.id) + 2, Len(id)),
                                     workers[k].idx)
    /\ \A k1, k2 \in WorkerIds :
          (Alive(k1) /\ Alive(k2) /\ workers[k1].t = workers[k2].t
             /\ workers[k1].idx # workers[k2].idx)
          => workers[k1].res.id # workers[k2].res.id
    /\ LET A3 == [id |-> <<"A">>, provider |-> <<>>, url |-> <<>>, times |-> 3]
       IN  /\ ResultId(A3, 0) = <<"A", "@", "0">>
           /\ ResultId(A3, 1) = <<"A", "@", "1">>
           /\ ResultId(A3, 2) = <<"A", "@", "2">>

C12_Witness ==
    \E k1, k2 \in WorkerIds :
        /\ workers[k1].pc = "perform"
        /\ workers[k2].pc = "perform"
        /\ workers[k1].t = workers[k2].t
        /\ workers[k1].res.id = <<"B", "@", "0">>
        /\ workers[k2].res.id = <<"B", "@", "1">>

\* what holds of the latch of thread k in every state: it is false before the
\* transfer, it is true exactly when the abort-check has returned nonzero,
\* and then received has reached the threshold; a progress tick at or above
\* the threshold sets it and ends the transfer, one below does neither
LatchState(k) ==
    LET w == workers[k] IN
    /\ w.pc \in {"start", "log_start", "log_msg"} => ~w.res.aborted_by_threshold
    /\ w.res.aborted_by_threshold = w.abortRequested
    /\ w.res.aborted_by_threshold => w.res.received >= 65536
    /\ (w.pc = "perform" /\ ~w.abortRequested /\ w.res.received >= 65536) =>
          ENABLED ( /\ xferinfo_cb(k)
                    /\ workers'[k].res.aborted_by_threshold
                    /\ workers'[k].abortRequested )
    /\ (w.pc = "perform" /\ w.res.received < 65536) =>
          ~ ENABLED ( /\ xferinfo_cb(k)
                      /\ \/ workers'[k].res.aborted_by_threshold
                         \/ workers'[k].abortRequested )

\* what holds of the latch of thread k in every step: while the Result
\* exists it does not go back to false, and it goes from false to true only
\* during the transfer, with received at or above the threshold
LatchStep(k) ==
    LET w == workers[k]
        v == workers'[k]
    IN  /\ (w.res.aborted_by_threshold
              /\ v.pc \in {"log_start", "log_msg", "perform", "log_result"})
           => v.res.aborted_by_threshold
        /\ (~w.res.aborted_by_threshold /\ v.res.aborted_by_threshold) =>
              /\ w.pc = "perform" /\ v.pc = "perform"
              /\ w.res.received >= 65536
              /\ v.res.received = w.res.received
              /\ v.abortRequested

\* C13: aborted_by_threshold starts false, is set by the abort-check exactly
\* on a progress tick with received >= 65536 (which then returns nonzero),
\* is true iff the abort-check has asked for the end of the transfer, is set
\* at most once and is never reset while the Result exists.
C13_ThresholdLatch ==
    /\ [](\A k \in WorkerIds : LatchState(k))
    /\ [][\A k \in WorkerIds : LatchStep(k)]_vars

C13_Witness ==
    \E k \in WorkerIds :
        /\ workers[k].pc = "perform"
        /\ workers[k].res.received = 65536
        /\ workers[k].res.aborted_by_threshold
        /\ workers[k].abortRequested

\* C14: a Result whose abort-check has asked for the end of the transfer is
\* classified "Not detected": the transfer layer reports the abort, and the
\* switch reads the latch.
C14_OwnAbortIsNotDetected ==
    \A k \in WorkerIds :
        (workers[k].pc = "log_result"
           /\ (workers[k].abortRequested \/ workers[k].res.aborted_by_threshold))
        => /\ workers[k].rc = "CURLE_ABORTED_BY_CALLBACK"
           /\ workers[k].res.status = "Not detected"
           /\ workers[k].res.detail = "Early abort: threshold reached"

C14_Witness ==
    \E k \in WorkerIds :
        /\ workers[k].pc = "log_result"
        /\ workers[k].abortRequested
        /\ workers[k].res.received >= 65536
        /\ workers[k].res.status = "Not detected"

\* the order of the steps of worker
WorkerOrder ==
    { <<"start", "log_start">>, <<"start", "log_msg">>, <<"log_msg", "done">>,
      <<"log_start", "perform">>, <<"perform", "log_result">>,
      <<"log_result", "done">> }

\* what holds of thread k in every state: no diagnosis before the transfer
\* has returned, a complete diagnosis from then on, no report before the
\* thread has ended
ExecutorState(k) ==
    LET w == workers[k] IN
    /\ w.pc \in {"start", "log_start", "log_msg", "perform"} =>
          /\ w.res.status = "" /\ w.res.detail = ""
          /\ w.rc = "none"
          /\ w.reported = 0
    /\ w.pc = "log_result" =>
          /\ w.rc # "none"
          /\ w.res.status # "" /\ w.res.detail # ""
          /\ w.reported = 0
    /\ w.reported <= 1

\* what holds of thread k in every step: the steps come in the order of
\* worker; status and detail are written in the step in which the transfer
\* returns and in no other; the Result is reported in the step that ends
\* the thread; from the classification to the end of the thread the Result
\* does not change
ExecutorStep(k) ==
    LET w == workers[k]
        v == workers'[k]
    IN  /\ v.pc # w.pc => << w.pc, v.pc >> \in WorkerOrder
        /\ (v.pc # "done"
              /\ (v.res.status # w.res.status \/ v.res.detail # w.res.detail))
           => /\ w.pc = "perform" /\ v.pc = "log_result"
              /\ w.res.status = "" /\ w.res.detail = ""
        /\ v.reported # w.reported =>
              /\ w.pc = "log_result" /\ v.pc = "done"
              /\ v.reported = w.reported + 1
        /\ (w.pc = "log_result" /\ v.pc = "log_result") => v.res = w.res

\* C15: every probe thread goes setup, transfer, classification, report,
\* end, in this order; status and detail are written once, when the transfer
\* call has returned; the Result is handed to log_result only with status
\* and detail written, and it does not change between that and the end of
\* the thread.
C15_ExecutorOrder ==
    /\ [](\A k \in WorkerIds : ExecutorState(k))
    /\ [][\A k \in WorkerIds : ExecutorStep(k)]_vars

C15_Witness ==
    \E k \in WorkerIds :
        /\ workers[k].pc = "log_result"
        /\ workers[k].rc = "CURLE_OK"
        /\ workers[k].res.received > 0
        /\ workers[k].res.status = "Possibly detected"
        /\ workers[k].reported = 0

\* what holds of the counter of thread k in every step: while the Result
\* exists it does not decrease; it grows only by a data callback of the
\* transfer of thread k; the abort of thread k is asked for only with its own
\* counter at the threshold
CounterStep(k) ==
    LET w == workers[k]
        v == workers'[k]
    IN  /\ v.pc # "done" => v.res.received >= w.res.received
        /\ (v.pc # "done" /\ v.res.received # w.res.received) =>
              /\ w.pc = "perform" /\ v.pc = "perform"
              /\ ~w.abortRequested
              /\ v.chunks = w.chunks + 1
        /\ (v.abortRequested /\ ~w.abortRequested) =>
              /\ w.pc = "perform"
              /\ w.res.received >= 65536

\* a step changes the record of at most one thread
OneThreadPerStep ==
    \A j, k \in WorkerIds :
        (workers'[j] # workers[j] /\ workers'[k] # workers[k]) => j = k

\* C16: under every interleaving of the probe threads, received of a Result
\* only grows, and only by write_cb of the same thread's transfer; no step
\* of one thread changes the counter, the latch or the transfer of another,
\* and a transfer is ended early only on its own counter.
C16_CounterIsLocal ==
    /\ [](\A k \in WorkerIds :
            (workers[k].abortRequested \/ workers[k].res.aborted_by_threshold)
            => workers[k].res.received >= 65536)
    /\ [][OneThreadPerStep /\ \A k \in WorkerIds : CounterStep(k)]_vars

C16_Witness ==
    \E k1, k2 \in WorkerIds :
        /\ workers[k1].pc = "perform"
        /\ workers[k1].abortRequested
        /\ workers[k1].res.received >= 65536
        /\ workers[k2].pc = "perform"
        /\ workers[k2].res.received > 0
        /\ workers[k2].res.received < 65536
        /\ ~workers[k2].abortRequested

\* thread k is inside log_write or log_msg, between taking and releasing
\* log_mtx
InLog(k) == workers[k].pc \in {"log_start", "log_msg", "log_result"}

\* the threads, main included, that are inside a log write
Writers ==
    Cardinality({ k \in WorkerIds : InLog(k) })
      + (IF mainpc = "log_msg" THEN 1 ELSE 0)

\* at most one thread is inside a log write, and log_mtx is locked exactly
\* while one is
OneWriter ==
    /\ Writers <= 1
    /\ (log_mtx = "locked") = (Writers = 1)

\* thread k has a logging call ahead: it has not started, or its transfer runs
WantsLog(k) == k \in WorkerIds /\ workers[k].pc \in {"start", "perform"}

\* C17: at most one thread, main included, is inside log_write or log_msg at
\* a time; log_mtx is never held for ever; and no thread stays for ever in
\* front of a logging call: a probe thread gets to write its lines, and main
\* gets past the join loop to its last line.
C17_LogSerialized ==
    /\ []OneWriter
    /\ []<>(log_mtx = "unlocked")
    /\ \A k \in 1 .. MaxWorkers : []<>(~WantsLog(k))
    /\ []<>(mainpc # "join")

C17_Witness ==
    \E k1, k2 \in WorkerIds :
        /\ workers[k1].pc = "log_result"
        /\ workers[k2].pc = "start"
        /\ log_mtx = "locked"

\* C18: a probe thread whose curl_easy_init failed writes one message with
\* log_msg and returns: it starts no transfer, gets no diagnosis and reports
\* no Result; the threads that got a handle write no such message and
\* report; main joins every thread, the failed ones included, before it
\* ends.
C18_InitFailureIsLocal ==
    /\ \A k \in WorkerIds :
          LET w == workers[k] IN
          /\ w.curl = "null" =>
                /\ w.pc \in {"log_msg", "done"}
                /\ w.chunks = 0 /\ w.res.received = 0
                /\ w.rc = "none" /\ w.res.status = ""
                /\ w.reported = 0
                /\ w.msgs = (IF w.pc = "done" THEN 1 ELSE 0)
          /\ w.curl # "null" => w.msgs = 0 /\ w.pc # "log_msg"
    /\ mainpc \in {"log_msg", "done"} =>
          /\ jn = Len(workers)
          /\ \A k \in WorkerIds :
                /\ workers[k].pc = "done"
                /\ workers[k].curl = "handle" => workers[k].reported = 1

C18_Witness ==
    /\ finished
    /\ jn = 2
    /\ Len(workers) = 2
    /\ workers[1].curl = "null" /\ workers[1].msgs = 1
    /\ workers[1].reported = 0
    /\ workers[2].curl = "handle" /\ workers[2].reported = 1

\* '{' minus '}' over the positions p .. e of s
BraceDepth(s, p, e) ==
    Cardinality({ x \in p .. e : At(s, x) = "{" })
      - Cardinality({ x \in p .. e : At(s, x) = "}" })

\* the top-level balanced {...} objects of s from position from on, in
\* order: an object runs from a '{' outside every earlier object to the '}'
\* that brings the depth back to zero; a '{' that is never closed opens none
RECURSIVE TopLevelObjects(_, _)
TopLevelObjects(s, from) ==
    LET ps == { p \in from .. (Len(s) - 1) : At(s, p) = "{" } IN
    IF ps = {} THEN <<>>
    ELSE LET p  == SetMin(ps)
             es == { e \in p .. (Len(s) - 1) : BraceDepth(s, p, e) = 0 }
         IN  IF es = {} THEN TopLevelObjects(s, p + 1)
             ELSE <<substr(s, p, SetMin(es) - p + 1)>>
                    \o TopLevelObjects(s, SetMin(es) + 1)

\* one Test for every object whose id is not empty, in order
RECURSIVE TestsOf(_)
TestsOf(objs) ==
    IF objs = <<>> THEN <<>>
    ELSE LET r == parseObject(Head(objs)) IN
         (IF r.exc = "none" /\ r.ok THEN <<r.t>> ELSE <<>>) \o TestsOf(Tail(objs))

\* C19 (as stated): when parseTestSuiteVector has gone through the array, the
\* list holds one Test for every top-level balanced {...} object with a
\* non-empty id, in order, whatever stands between two objects.
C19_EveryTopLevelObject ==
    (build = 1 /\ mainpc = "parse" /\ parseLoopDone) =>
        tests = TestsOf(TopLevelObjects(arr, 0))

\* the balanced array that starts at the first '[' after the first
\* occurrence of tok in s; empty when there is none
ArrayAfter(s, tok) ==
    LET ms == { k \in 0 .. Len(s) : Occurs(s, tok, k) } IN
    IF ms = {} THEN <<>>
    ELSE LET bs == { k \in SetMin(ms) .. (Len(s) - 1) : At(s, k) = "[" } IN
         IF bs = {} THEN <<>>
         ELSE LET b  == SetMin(bs)
                  es == { e \in b .. (Len(s) - 1) :
                            BalancedArray(substr(s, b, e - b + 1)) }
              IN  IF es = {} THEN <<>>
                  ELSE substr(s, b, SetMin(es) - b + 1)

\* s from the first occurrence of tok on
FromToken(s, tok) ==
    LET ms == { k \in 0 .. Len(s) : Occurs(s, tok, k) } IN
    IF ms = {} THEN <<>> ELSE substr(s, SetMin(ms), Len(s) - SetMin(ms))

\* C20 (as stated): from a document that holds the token TEST_SUITE followed
\* by a balanced bracketed array, the array is extracted.
C20_TokenIsTestSuite ==
    (build = 1 /\ mainpc = "extract"
       /\ ArrayAfter(html, <<"T", "E", "S", "T", "_", "S", "U", "I", "T", "E">>) # <<>>)
    => extractTestSuiteArray(html) # <<>>

\* C20 (amended): the token is "const TEST_SUITE".  The array extracted is
\* the balanced array after the first occurrence of that token, whatever
\* stands before the token; a document without the token gives none; and
\* when parseTestSuiteVector has gone through the array, the list of main
\* holds the Tests it took from the array and nothing else.
C20_TokenIsConstTestSuite ==
    /\ (build = 1 /\ mainpc = "extract") =>
          /\ extractTestSuiteArray(html) = ArrayAfter(html, marker)
          /\ extractTestSuiteArray(html)
               = extractTestSuiteArray(FromToken(html, marker))
    /\ (build = 1 /\ mainpc = "parse") =>
          /\ arr # <<>>
          /\ arr = extractTestSuiteArray(html)
          /\ parseLoopDone =>
                LET r == parseTestSuiteVector(arr, 0, <<>>) IN
                r.exc = "none" /\ tests = r.out

C20_Witness ==
    /\ build = 1
    /\ mainpc = "parse"
    /\ parseLoopDone
    /\ substr(html, 0, 3) = <<"[", "x", "]">>
    /\ Len(tests) = 1
    /\ tests[1].id = <<"A">>

\* the text the pass of parseTestSuiteVector that starts at index n hands to
\* parseObject: from the next '{' to the '}' that closes it; empty when there
\* is none
ObjectAt(arrayText, n) ==
    LET p == find(arrayText, <<"{">>, n) IN
    IF p = npos THEN <<>>
    ELSE LET j == matchBrace(arrayText, p, 0) IN
         IF j = npos THEN <<>> ELSE substr(arrayText, p, j - p + 1)

\* the record text names an id in quotes that is not empty, and has no times
\* key
LacksTimes(objText) ==
    /\ objText # <<>>
    /\ getString(objText, <<"i", "d">>) # <<>>
    /\ find(objText, <<"t", "i", "m", "e", "s", ":">>, 0) = npos

\* C21: a record with a non-empty id and no times key is read without an
\* exception and is appended to the list with times = 0; and for a Test of the
\* list with times = 0 the dispatch loops start no thread: no worker, and so no
\* Result, is of that Test.
C21_MissingTimesIsSkipped ==
    /\ (build = 1 /\ mainpc = "parse" /\ ~parseLoopDone
          /\ LacksTimes(ObjectAt(arr, i))) =>
          LET r == parseIter(arr, i) IN
          /\ r.exc = "none"
          /\ Len(r.push) = 1
          /\ r.push[1].id = getString(ObjectAt(arr, i), <<"i", "d">>)
          /\ r.push[1].times = 0
    /\ \A n \in 1 .. Len(tests) :
          tests[n].times = 0 =>
             \A k \in WorkerIds : workers[k].t # tests[n]

\* the list read from the page is a record without times followed by one with
\* times:1; the dispatch loops have ended, and the one thread there is belongs
\* to the second Test and has written its Result
C21_Witness ==
    /\ build = 1
    /\ Dispatched
    /\ loadOutcome = "parsed"
    /\ Len(tests) = 2
    /\ tests[1].id = <<"C">>
    /\ tests[1].times = 0
    /\ tests[2].times = 1
    /\ Len(workers) = 1
    /\ workers[1].t = tests[2]
    /\ workers[1].reported = 1

\* the classified Results whose received count is at least the threshold
AboveThreshold ==
    { k \in WorkerIds : /\ workers[k].pc = "log_result"
                        /\ workers[k].res.received >= OK_THRESHOLD_BYTES }

\* C22 (as stated): a Result whose received count is at least the threshold
\* never has the diagnosis "Detected" or "Detected (probable)".
C22_NeverDetectedAboveThreshold ==
    \A k \in AboveThreshold :
        Diagnosis(workers[k].res.status) \notin {"Detected", "Detected (probable)"}

\* C22 (amended): a Result whose received count is at least the threshold
\* never has the diagnosis "Detected (probable)"; it has "Not detected" when
\* the transfer succeeded and when a progress tick has seen the threshold
\* (aborted_by_threshold), whatever deliveries came before; and it has
\* "Detected" exactly when the transfer ended with a timeout, or with an abort
\* the executor did not ask for, before any tick saw the threshold.
C22_DetectedAboveThresholdOnlyUnseen ==
    \A k \in AboveThreshold :
        LET w == workers[k]
            d == Diagnosis(w.res.status)
        IN  /\ d # "Detected (probable)"
            /\ (w.rc = "CURLE_OK" \/ w.res.aborted_by_threshold)
                  => d = "Not detected"
            /\ d = "Detected" <=>
                  /\ ~w.res.aborted_by_threshold
                  /\ w.rc \in {"CURLE_OPERATION_TIMEDOUT",
                               "CURLE_ABORTED_BY_CALLBACK"}

\* two deliveries have brought received to the threshold, no tick has come
\* since, and the transfer has ended with the timeout
C22_Witness ==
    \E k \in AboveThreshold :
        /\ workers[k].chunks = 2
        /\ workers[k].res.received = OK_THRESHOLD_BYTES
        /\ ~workers[k].res.aborted_by_threshold
        /\ workers[k].rc = "CURLE_OPERATION_TIMEDOUT"
        /\ workers[k].res.status = "Detected"

\* a pass of the while loop of parseTestSuiteVector that stays in the loop
\* moves the scan index forward, and never beyond one past the end of the text
ParseAdvances ==
    (mainpc = "parse" /\ mainpc' = "parse") =>
        /\ i < i'
        /\ i' <= Len(arr) + 1

\* in the loop the index is within one past the end of the text, and the pass
\* about to be made, when no exception ends it, gives a greater index
ParseVariant ==
    mainpc = "parse" =>
        /\ i <= Len(arr) + 1
        /\ (~parseLoopDone /\ parseIter(arr, i).exc = "none") =>
              /\ i < parseIter(arr, i).i
              /\ parseIter(arr, i).i <= Len(arr) + 1

\* C23: parseTestSuiteVector terminates: every pass of its outer loop strictly
\* advances the scan index, and the index never exceeds one past the end of
\* the text, at which the loop condition i < size() ends the loop; so the
\* loop makes at most size() + 1 passes, also on a text with a '{' that is
\* never closed and on a text with a '}' that closes nothing.
C23_ParseTerminates ==
    /\ [][ParseAdvances]_vars
    /\ []ParseVariant

\* the array holds a '}' that closes nothing and then a '{' that is never
\* closed; the loop has gone through every index up to that '{' and has been
\* left by the break
C23_Witness ==
    /\ build = 1
    /\ mainpc = "parse"
    /\ parseLoopDone
    /\ LET p == find(arr, <<"{">>, 0)
           q == find(arr, <<"}">>, 0)
       IN  /\ p # npos
           /\ q # npos
           /\ q < p
           /\ matchBrace(arr, p, 0) = npos
           /\ i = p + 1

=============================================================================
